---- MODULE Spec2Model ----
(***************************************************************************)
(* A model of the S3-backed afero filesystem facade of s3_fs.go.           *)
(*                                                                         *)
(* Paths and keys are sequences of one-character strings, so that the      *)
(* string functions of the source (TrimSpace, ReplaceAll, HasSuffix,       *)
(* TrimPrefix, path.Clean, path.Join, path.Base) are computed, not assumed.*)
(***************************************************************************)
EXTENDS Integers, Sequences, FiniteSets, TLC

(* ------------------------------------------------------------------ *)
(* Bounds                                                              *)
(* ------------------------------------------------------------------ *)

\* longest input string enumerated for the pure path functions
MaxLen == 4

\* facade calls made in one run
MaxOps == 2

\* largest object size, in bytes
MaxSize == 1

\* the time of the run: the store stamps Now on what is written during the
\* run, and what the bucket held before is older
Now == 2

(* ------------------------------------------------------------------ *)
(* Strings                                                             *)
(* ------------------------------------------------------------------ *)

Sep == "/"
Backslash == "\\"
Dot == "."
Colon == ":"
Space == " "

\* [[:alpha:]] of volumePrefixRegex, restricted to the letters the model uses
Alpha == {"a", "b", "c", "s", "C"}

\* the characters the enumerated inputs are built from
Alphabet == {"a", Colon, Sep, Backslash, Dot, Space}

EmptyStr == << >>

Last(s) == s[Len(s)]

\* strings.HasSuffix(s, "/")
HasSuffixSep(s) == Len(s) > 0 /\ Last(s) = Sep

\* strings.HasPrefix(s, p)
HasPrefix(s, p) == Len(p) <= Len(s) /\ SubSeq(s, 1, Len(p)) = p

\* strings.TrimPrefix(s, "/")
TrimPrefixSep(s) == IF Len(s) > 0 /\ s[1] = Sep THEN Tail(s) ELSE s

\* strings.TrimSpace(s) == ""
IsBlank(s) == \A i \in 1..Len(s) : s[i] = Space

\* strings.ReplaceAll(s, "\\", "/")
ReplaceBackslash(s) == [i \in 1..Len(s) |-> IF s[i] = Backslash THEN Sep ELSE s[i]]

\* volumePrefixRegex.ReplaceAllString(s, ""): the pattern is anchored at the
\* start, so at most the first two characters are removed
StripVolume(s) ==
    IF Len(s) >= 2 /\ s[1] \in Alpha /\ s[2] = Colon
    THEN SubSeq(s, 3, Len(s))
    ELSE s

\* the components of s between separators (strings.Split(s, "/"))
RECURSIVE SplitFrom(_, _, _)
SplitFrom(s, i, cur) ==
    IF i > Len(s) THEN << cur >>
    ELSE IF s[i] = Sep THEN << cur >> \o SplitFrom(s, i + 1, EmptyStr)
    ELSE SplitFrom(s, i + 1, Append(cur, s[i]))

Split(s) == SplitFrom(s, 1, EmptyStr)

\* strings.Join(comps, "/")
RECURSIVE JoinSep(_)
JoinSep(comps) ==
    IF Len(comps) = 0 THEN EmptyStr
    ELSE IF Len(comps) = 1 THEN comps[1]
    ELSE comps[1] \o << Sep >> \o JoinSep(Tail(comps))

DotDot == << Dot, Dot >>

\* the element loop of path.Clean: "" and "." are dropped, ".." removes the
\* previous element when there is one to remove, is dropped at the root and
\* is kept at the front of a relative path
RECURSIVE CleanComps(_, _, _)
CleanComps(comps, stack, rooted) ==
    IF Len(comps) = 0 THEN stack
    ELSE LET c == Head(comps)
             rest == Tail(comps)
         IN  IF c = EmptyStr \/ c = << Dot >>
             THEN CleanComps(rest, stack, rooted)
             ELSE IF c = DotDot
             THEN IF Len(stack) > 0 /\ Last(stack) # DotDot
                  THEN CleanComps(rest, SubSeq(stack, 1, Len(stack) - 1), rooted)
                  ELSE IF rooted
                  THEN CleanComps(rest, stack, rooted)
                  ELSE CleanComps(rest, Append(stack, c), rooted)
             ELSE CleanComps(rest, Append(stack, c), rooted)

\* the result of path.Clean from the elements it kept
CleanJoin(rooted, kept) ==
    IF rooted THEN << Sep >> \o JoinSep(kept)
    ELSE IF Len(kept) = 0 THEN << Dot >>
    ELSE JoinSep(kept)

\* path.Clean
Clean(p) ==
    IF Len(p) = 0 THEN << Dot >>
    ELSE CleanJoin(p[1] = Sep, CleanComps(Split(p), << >>, p[1] = Sep))

\* the tail of sanitize: name has forward slashes and no volume prefix; it is
\* cleaned and its trailing separator is put back
sanitizeClean(name) ==
    IF HasSuffixSep(name) THEN Clean(name) \o << Sep >> ELSE Clean(name)

\* sanitize (package level)
sanitize(name) ==
    IF IsBlank(name) THEN name
    ELSE sanitizeClean(ReplaceBackslash(StripVolume(name)))

\* the last element of the non-empty elements kept, or the root
BaseOf(kept) == IF Len(kept) = 0 THEN << Sep >> ELSE Last(kept)

\* path.Base: the last element, trailing separators removed first
Base(p) ==
    IF Len(p) = 0 THEN << Dot >>
    ELSE BaseOf(SelectSeq(Split(p), LAMBDA c : c # EmptyStr))

\* path.Join(a, b): the non-empty elements joined by a separator, cleaned
Join(a, b) ==
    IF Len(a) = 0 /\ Len(b) = 0 THEN EmptyStr
    ELSE IF Len(a) = 0 THEN Clean(b)
    ELSE IF Len(b) = 0 THEN Clean(a)
    ELSE Clean(a \o << Sep >> \o b)

(* ------------------------------------------------------------------ *)
(* State                                                               *)
(* ------------------------------------------------------------------ *)

VARIABLES
    store,      \* the bucket: key -> [size, mtime] of the object stored there
    pending,    \* keys written to the bucket and not yet visible to reads
    RawMode,    \* Fs.RawMode
    last,       \* the facade call that ended last: arguments, requests, result
    ops,        \* number of facade calls made so far
    arg,        \* input of the path-function runs
    res         \* outputs of the path-function runs, oldest first

vars == << store, pending, RawMode, last, ops, arg, res >>

\* Fs.Bucket
Bucket == << "B" >>

(* ------------------------------------------------------------------ *)
(* Errors and file infos                                               *)
(* ------------------------------------------------------------------ *)

\* an error value: type is "nil", "NotSupported", "aws" or "PathError";
\* cause names the client error or os.ErrNotExist
MkErr(type, op, path, cause) == [type |-> type, op |-> op, path |-> path, cause |-> cause]

Nil == MkErr("nil", "", EmptyStr, "")

\* ErrNotSupported
ErrNotSupported == MkErr("NotSupported", "", EmptyStr, "")

\* a bare error of the store client; cause is "404", "500",
\* "InvalidParameter" (request validation) or "ResourceNotReady" (waiter)
AwsErr(cause) == MkErr("aws", "", EmptyStr, cause)

\* &os.PathError{Op: op, Path: path, Err: cause}
PathError(op, path, cause) == MkErr("PathError", op, path, cause)

\* os.ErrNotExist as the cause of a PathError
ErrNotExist == "ErrNotExist"

\* errors.As(err, &awserr.RequestFailure) with StatusCode() == 404
IsStatus404(err) == err.type = "aws" /\ err.cause = "404"

\* os.IsNotExist(err)
IsNotExist(err) == err.type = "PathError" /\ err.cause = ErrNotExist

\* time.Unix(0, 0), the timestamp of a synthesized directory
Epoch == 0

\* the zero time.Time of a FileInfo built without a timestamp
ZeroTime == -1

MkInfo(kind, name, isDir, size, modTime) ==
    [kind |-> kind, name |-> name, isDir |-> isDir, size |-> size, modTime |-> modTime]

\* a nil os.FileInfo
NilInfo == MkInfo("nil", EmptyStr, FALSE, 0, ZeroTime)

\* FileInfo{name: name}; FileInfo{} is ZeroInfo(EmptyStr)
ZeroInfo(name) == MkInfo("value", name, FALSE, 0, ZeroTime)

\* NewFileInfo(name, directory, sizeInBytes, modTime)
NewFileInfo(name, isDir, size, modTime) == MkInfo("value", name, isDir, size, modTime)

(* ------------------------------------------------------------------ *)
(* The object store client (fs.S3API)                                  *)
(* ------------------------------------------------------------------ *)

\* a request the facade sent to the store
Req(api, key, extra) == [api |-> api, key |-> key, extra |-> extra]

\* the keys a read of the bucket can see
Visible(st, pend) == DOMAIN st \ pend

\* the client rejects a request whose Key is shorter than one character
\* before sending it
ValidKey(key) == Len(key) >= 1

\* st without key
Without(st, key) == [k \in DOMAIN st \ {key} |-> st[k]]

\* st with obj stored at key
With(st, key, obj) == [k \in DOMAIN st \cup {key} |-> IF k = key THEN obj ELSE st[k]]

\* HeadObject: the error of a point lookup of key; bad is a service failure
HeadObjectErr(st, pend, key, bad) ==
    IF ~ValidKey(key) THEN AwsErr("InvalidParameter")
    ELSE IF bad THEN AwsErr("500")
    ELSE IF key \in Visible(st, pend) THEN Nil
    ELSE AwsErr("404")

\* ListObjectsV2 with MaxKeys 1: KeyCount of the keys that start with prefix
KeyCount(st, pend, prefix) ==
    IF \E k \in Visible(st, pend) : HasPrefix(k, prefix) THEN 1 ELSE 0

\* DeleteObject: deleting a key that is not there succeeds
DeleteObjectErr(key, bad) ==
    IF ~ValidKey(key) THEN AwsErr("InvalidParameter")
    ELSE IF bad THEN AwsErr("500")
    ELSE Nil

\* PutObject
PutObjectErr(key, bad) ==
    IF ~ValidKey(key) THEN AwsErr("InvalidParameter")
    ELSE IF bad THEN AwsErr("500")
    ELSE Nil

\* PutObjectAcl: the object has to exist
PutObjectAclErr(st, pend, key, bad) ==
    IF ~ValidKey(key) THEN AwsErr("InvalidParameter")
    ELSE IF bad THEN AwsErr("500")
    ELSE IF key \in Visible(st, pend) THEN Nil
    ELSE AwsErr("404")

(* ------------------------------------------------------------------ *)
(* The facade                                                          *)
(*                                                                     *)
(* Every handler is an operator from the bucket and its arguments to   *)
(* an outcome: the error and values returned, the requests sent (in    *)
(* order) and the bucket afterwards.  f numbers the request that meets *)
(* a service failure; 0 means none does.  A handler is split where it  *)
(* binds a local variable: the operator that continues takes the       *)
(* variable as a parameter.                                            *)
(* ------------------------------------------------------------------ *)

\* a file handle: kind is "nil" or "file"; stream is "none", "write" or "read"
MkFile(kind, name, stream) == [kind |-> kind, name |-> name, stream |-> stream]

NilFile == MkFile("nil", EmptyStr, "none")

\* NewFile(fs, name): a handle on name with no stream open
NewFile(name) == MkFile("file", name, "none")

Outcome(err, info, file, calls, st, pend) ==
    [err |-> err, info |-> info, file |-> file, calls |-> calls, st |-> st, pend |-> pend]

\* outcome r of the rest of a handler that sent calls before it
After(calls, r) == [r EXCEPT !.calls = calls \o @]

\* Fs.sanitize: the path is left alone in raw mode
FsSanitize(raw, name) == IF raw THEN name ELSE sanitize(name)

\* the Prefix statDirectory lists
ListPrefix(name) == TrimPrefixSep(Clean(name))

\* statDirectory without the test of KeyCount: every prefix is a directory
statDirectoryListedNoCount(st, pend, name, prefix, bad) ==
    IF bad
    THEN Outcome(PathError("stat", name, "500"), ZeroInfo(EmptyStr), NilFile,
                 << Req("ListObjectsV2", prefix, "MaxKeys=1") >>, st, pend)
    ELSE Outcome(Nil, NewFileInfo(Base(name), TRUE, 0, Epoch), NilFile,
                 << Req("ListObjectsV2", prefix, "MaxKeys=1") >>, st, pend)

\* Fs.statDirectory once the listing of prefix has answered
statDirectoryListed(st, pend, name, prefix, bad) ==
    IF bad
    THEN Outcome(PathError("stat", name, "500"), ZeroInfo(EmptyStr), NilFile,
                 << Req("ListObjectsV2", prefix, "MaxKeys=1") >>, st, pend)
    ELSE IF KeyCount(st, pend, prefix) = 0 /\ name # EmptyStr
    THEN Outcome(PathError("stat", name, ErrNotExist), NilInfo, NilFile,
                 << Req("ListObjectsV2", prefix, "MaxKeys=1") >>, st, pend)
    ELSE Outcome(Nil, NewFileInfo(Base(name), TRUE, 0, Epoch), NilFile,
                 << Req("ListObjectsV2", prefix, "MaxKeys=1") >>, st, pend)

\* Fs.statDirectory; bad is a service failure of the listing
statDirectory(st, pend, name, bad) == statDirectoryListed(st, pend, name, ListPrefix(name), bad)

\* Fs.Stat once the point lookup of name has answered err
StatLooked(st, pend, name, err, f) ==
    IF err # Nil
    THEN IF IsStatus404(err)
         THEN After(<< Req("HeadObject", name, "") >>, statDirectory(st, pend, name, f = 2))
         ELSE Outcome(PathError("stat", name, err.cause), ZeroInfo(EmptyStr), NilFile,
                      << Req("HeadObject", name, "") >>, st, pend)
    ELSE IF HasSuffixSep(name)
    THEN Outcome(Nil, ZeroInfo(name), NilFile, << Req("HeadObject", name, "") >>, st, pend)
    ELSE Outcome(Nil, NewFileInfo(Base(name), FALSE, st[name].size, st[name].mtime),
                 NilFile, << Req("HeadObject", name, "") >>, st, pend)

\* Fs.Stat on the sanitized name
StatNamed(st, pend, name, f) == StatLooked(st, pend, name, HeadObjectErr(st, pend, name, f = 1), f)

\* Fs.Stat
Stat(st, pend, raw, name0, f) == StatNamed(st, pend, FsSanitize(raw, name0), f)

\* mode & (1 << bit) != 0
HasBit(mode, bit) == (mode \div (2 ^ bit)) % 2 = 1

\* the switch of Chmod with the two masks exchanged
ChmodAclSwapped(mode) ==
    LET otherRead == HasBit(mode, 1)
        otherWrite == HasBit(mode, 2)
    IN  IF otherRead /\ otherWrite THEN "public-read-write"
        ELSE IF otherRead THEN "public-read"
        ELSE "private"

\* the switch of Fs.Chmod: the canned ACL for a file mode
ChmodAcl(mode) ==
    LET otherRead == HasBit(mode, 2)
        otherWrite == HasBit(mode, 1)
    IN  IF otherRead /\ otherWrite THEN "public-read-write"
        ELSE IF otherRead THEN "public-read"
        ELSE "private"

\* Fs.Chmod on the sanitized name
ChmodNamed(st, pend, name, mode, f) ==
    Outcome(PutObjectAclErr(st, pend, name, f = 1), NilInfo, NilFile,
            << Req("PutObjectAcl", name, ChmodAcl(mode)) >>, st, pend)

\* Fs.Chmod
Chmod(st, pend, raw, name0, mode, f) == ChmodNamed(st, pend, FsSanitize(raw, name0), mode, f)

\* a Chown that the store accepts
ChownAccepted(st, pend) == Outcome(Nil, NilInfo, NilFile, << >>, st, pend)

\* Fs.Chown
Chown(st, pend) == Outcome(ErrNotSupported, NilInfo, NilFile, << >>, st, pend)

\* Fs.Chtimes
Chtimes(st, pend) == Outcome(ErrNotSupported, NilInfo, NilFile, << >>, st, pend)

\* the CopySource of a copy request names the source as bucket/key: the
\* bucket is what precedes the first separator
CopySourceBucket(src) == Head(Split(src))

CopySourceKey(src) == SubSeq(src, Len(CopySourceBucket(src)) + 2, Len(src))

\* CopyObject: the source has to name an object of a bucket that exists
CopyObjectErr(st, pend, src, key, bad) ==
    IF ~ValidKey(key) THEN AwsErr("InvalidParameter")
    ELSE IF bad THEN AwsErr("500")
    ELSE IF Len(CopySourceBucket(src)) = Len(src) THEN AwsErr("400")
    ELSE IF CopySourceBucket(src) # Bucket THEN AwsErr("404")
    ELSE IF CopySourceKey(src) \notin Visible(st, pend) THEN AwsErr("404")
    ELSE Nil

\* Fs.Rename after the copy of src to newname succeeded: the delete
RenameCopied(st, pend, oldname, newname, src, f) ==
    IF DeleteObjectErr(oldname, f = 2) # Nil
    THEN Outcome(DeleteObjectErr(oldname, f = 2), NilInfo, NilFile,
                 << Req("CopyObject", newname, src), Req("DeleteObject", oldname, "") >>,
                 With(st, newname, st[CopySourceKey(src)]), pend)
    ELSE Outcome(Nil, NilInfo, NilFile,
                 << Req("CopyObject", newname, src), Req("DeleteObject", oldname, "") >>,
                 Without(With(st, newname, st[CopySourceKey(src)]), oldname), pend \ {oldname})

\* Fs.Rename from line 219 on, with the two names as lines 216-217 left them
RenameNamed(st, pend, oldname, newname, f) ==
    IF oldname = newname
    THEN Outcome(Nil, NilInfo, NilFile, << >>, st, pend)
    ELSE IF CopyObjectErr(st, pend, Bucket \o oldname, newname, f = 1) # Nil
    THEN Outcome(CopyObjectErr(st, pend, Bucket \o oldname, newname, f = 1), NilInfo, NilFile,
                 << Req("CopyObject", newname, Bucket \o oldname) >>, st, pend)
    ELSE RenameCopied(st, pend, oldname, newname, Bucket \o oldname, f)

\* line 217: newname = fs.sanitize(oldname), oldname being what line 216 made it
RenameFrom(st, pend, raw, oldname, f) == RenameNamed(st, pend, oldname, FsSanitize(raw, oldname), f)

\* Fs.Rename; line 216: oldname = fs.sanitize(newname)
Rename(st, pend, raw, oldname0, newname0, f) == RenameFrom(st, pend, raw, FsSanitize(raw, newname0), f)

\* the error of a stream that could not be opened or flushed
StreamErr == MkErr("stream", "", EmptyStr, "io")

\* File.openWriteStream / File.openReadStream on a new handle on name: the
\* handle with its stream open, or without when the stream fails
OpenStream(name, stream, bad) == MkFile("file", name, IF bad THEN "none" ELSE stream)

\* the read branch of OpenFile without the test of IsDir: a read stream is
\* opened on whatever Stat found
OpenFileStatedAlwaysReads(st, pend, name, s, f) ==
    IF s.err # Nil
    THEN Outcome(s.err, NilInfo, NilFile, s.calls, st, pend)
    ELSE Outcome(IF f = Len(s.calls) + 1 THEN StreamErr ELSE Nil, NilInfo,
                 OpenStream(name, "read", f = Len(s.calls) + 1),
                 s.calls \o << Req("openReadStream", name, "0") >>, st, pend)

\* the read branch of Fs.OpenFile once file.Stat() has answered s
OpenFileStated(st, pend, name, s, f) ==
    IF s.err # Nil
    THEN Outcome(s.err, NilInfo, NilFile, s.calls, st, pend)
    ELSE IF s.info.isDir
    THEN Outcome(Nil, NilInfo, NewFile(name), s.calls, st, pend)
    ELSE Outcome(IF f = Len(s.calls) + 1 THEN StreamErr ELSE Nil, NilInfo,
                 OpenStream(name, "read", f = Len(s.calls) + 1),
                 s.calls \o << Req("openReadStream", name, "0") >>, st, pend)

\* OpenFile with the write branch ahead of the test of O_APPEND
OpenFileNamedWriteFirst(st, pend, raw, name, flag, f) ==
    IF "O_RDWR" \in flag
    THEN Outcome(ErrNotSupported, NilInfo, NilFile, << >>, st, pend)
    ELSE IF "O_CREATE" \in flag \/ "O_WRONLY" \in flag
    THEN Outcome(IF f = 1 THEN StreamErr ELSE Nil, NilInfo, OpenStream(name, "write", f = 1),
                 << Req("openWriteStream", name, "") >>, st, pend)
    ELSE IF "O_APPEND" \in flag
    THEN Outcome(ErrNotSupported, NilInfo, NilFile, << >>, st, pend)
    ELSE OpenFileStated(st, pend, name, Stat(st, pend, raw, name, f), f)

\* Fs.OpenFile on the sanitized name; flag is the set of the os.O_* bits set
OpenFileNamed(st, pend, raw, name, flag, f) ==
    IF "O_RDWR" \in flag
    THEN Outcome(ErrNotSupported, NilInfo, NilFile, << >>, st, pend)
    ELSE IF "O_APPEND" \in flag
    THEN Outcome(ErrNotSupported, NilInfo, NilFile, << >>, st, pend)
    ELSE IF "O_CREATE" \in flag \/ "O_WRONLY" \in flag
    THEN Outcome(IF f = 1 THEN StreamErr ELSE Nil, NilInfo, OpenStream(name, "write", f = 1),
                 << Req("openWriteStream", name, "") >>, st, pend)
    ELSE OpenFileStated(st, pend, name, Stat(st, pend, raw, name, f), f)

\* Fs.OpenFile
OpenFile(st, pend, raw, name0, flag, f) == OpenFileNamed(st, pend, raw, FsSanitize(raw, name0), flag, f)

\* the keys invisible after a write of key: a key that was not there is
\* invisible for a while when the store is slow to publish it
PutPending(st, pend, key, slow) ==
    IF slow /\ key \notin DOMAIN st THEN pend \cup {key} ELSE pend

\* WaitUntilObjectExists: polls the point lookup until it answers, and gives
\* up on a key that stays invisible
WaitErr(st, pend, key, bad) ==
    IF ~ValidKey(key) THEN AwsErr("InvalidParameter")
    ELSE IF bad THEN AwsErr("500")
    ELSE IF key \in Visible(st, pend) THEN Nil
    ELSE AwsErr("ResourceNotReady")

\* Fs.Create once fs.OpenFile has answered o: st and pend are the bucket
\* after the put
CreateOpened(st, pend, name, o, f) ==
    IF o.err # Nil
    THEN Outcome(o.err, NilInfo, o.file, << Req("PutObject", name, "empty") >> \o o.calls, st, pend)
    ELSE Outcome(WaitErr(st, pend, name, f = 3), NilInfo, o.file,
                 << Req("PutObject", name, "empty") >> \o o.calls
                     \o << Req("WaitUntilObjectExists", name, "") >>,
                 st, pend)

\* Fs.Create after the put succeeded and left the bucket as st and pend
CreatePut(st, pend, raw, name, f) ==
    CreateOpened(st, pend, name, OpenFile(st, pend, raw, name, {"O_WRONLY"}, IF f = 2 THEN 1 ELSE 0), f)

\* Fs.Create: the put is keyed by name as given
Create(st, pend, raw, name, slow, f) ==
    IF PutObjectErr(name, f = 1) # Nil
    THEN Outcome(PutObjectErr(name, f = 1), NilInfo, NilFile,
                 << Req("PutObject", name, "empty") >>, st, pend)
    ELSE CreatePut(With(st, name, [size |-> 0, mtime |-> Now]), PutPending(st, pend, name, slow),
                   raw, name, f)

\* File.Close of a handle with a write stream: the bytes written (size of
\* them) are uploaded to the key of the handle
CloseWrite(st, pend, file, size, slow, bad) ==
    IF PutObjectErr(file.name, bad) # Nil
    THEN Outcome(PutObjectErr(file.name, bad), NilInfo, NilFile,
                 << Req("Upload", file.name, "") >>, st, pend)
    ELSE Outcome(Nil, NilInfo, NilFile, << Req("Upload", file.name, "") >>,
                 With(st, file.name, [size |-> size, mtime |-> Now]),
                 PutPending(st, pend, file.name, slow))

\* Fs.Mkdir once fs.OpenFile has answered o
MkdirOpened(st, pend, o, slow, f) ==
    IF o.err # Nil
    THEN Outcome(o.err, NilInfo, NilFile, o.calls, st, pend)
    ELSE After(o.calls, CloseWrite(st, pend, o.file, 0, slow, f = 2))

\* Fs.Mkdir on the sanitized name
MkdirNamed(st, pend, raw, name, slow, f) ==
    MkdirOpened(st, pend, OpenFile(st, pend, raw, Clean(name) \o << Sep >>, {"O_CREATE"}, f), slow, f)

\* Fs.Mkdir
Mkdir(st, pend, raw, name0, slow, f) == MkdirNamed(st, pend, raw, FsSanitize(raw, name0), slow, f)

\* Fs.MkdirAll
MkdirAll(st, pend, raw, name0, slow, f) == Mkdir(st, pend, raw, name0, slow, f)

\* Fs.forceRemove
forceRemove(st, pend, name, bad) ==
    IF DeleteObjectErr(name, bad) # Nil
    THEN Outcome(DeleteObjectErr(name, bad), NilInfo, NilFile,
                 << Req("DeleteObject", name, "") >>, st, pend)
    ELSE Outcome(Nil, NilInfo, NilFile, << Req("DeleteObject", name, "") >>,
                 Without(st, name), pend \ {name})

\* Remove without the test of the error of Stat: the key is deleted anyway
RemoveStatedAnyway(st, pend, name, s, f) ==
    After(s.calls, forceRemove(st, pend, name, f = Len(s.calls) + 1))

\* Fs.Remove once fs.Stat has answered s
RemoveStated(st, pend, name, s, f) ==
    IF s.err # Nil
    THEN Outcome(s.err, NilInfo, NilFile, s.calls, st, pend)
    ELSE After(s.calls, forceRemove(st, pend, name, f = Len(s.calls) + 1))

\* Fs.Remove on the sanitized name
RemoveNamed(st, pend, raw, name, f) == RemoveStated(st, pend, name, Stat(st, pend, raw, name, f), f)

\* Fs.Remove
Remove(st, pend, raw, name0, f) == RemoveNamed(st, pend, raw, FsSanitize(raw, name0), f)

\* the prefix under which the children of directory name are stored
DirPrefix(name) == IF name = EmptyStr \/ HasSuffixSep(name) THEN name ELSE name \o << Sep >>

\* the name of the entry whose key continues the prefix of its directory
\* with the elements comps
EntryOf(comps) ==
    [name |-> IF comps[1] = EmptyStr THEN << Sep >> ELSE comps[1], isDir |-> Len(comps) > 1]

\* the entry a key below prefix contributes to the listing of the directory:
\* the first element of the rest of the key, a directory when more follows
DirEntry(prefix, key) == EntryOf(Split(SubSeq(key, Len(prefix) + 1, Len(key))))

\* the children of the directory stored under prefix, each once
Children(st, pend, prefix) ==
    { DirEntry(prefix, k) : k \in { v \in Visible(st, pend) : HasPrefix(v, prefix) /\ v # prefix } }

\* File.Readdir(0)
Readdir(st, pend, name) == Children(st, pend, DirPrefix(name))

\* the result of a part of RemoveAll: n counts the requests sent so far
Partial(err, calls, st, pend, n) == [err |-> err, calls |-> calls, st |-> st, pend |-> pend, n |-> n]

\* the result of a part that ended with outcome r of request number n
PartialOf(r, n) == Partial(r.err, r.calls, r.st, r.pend, n)

\* the outcome of a call that recurses without end and so never returns
Diverges == MkErr("diverges", "", EmptyStr, "")

\* a nesting no directory tree of the bucket explains: every level of a tree
\* takes at least one character of a key
TooDeep(st, depth) == \A k \in DOMAIN st : depth > Len(k) + 1

RECURSIVE RemoveAllNamed(_, _, _, _, _, _, _)
RECURSIVE RemoveEntries(_, _, _, _, _, _, _, _)

\* Fs.RemoveAll, after n requests of the calls that led here
RemoveAllFrom(st, pend, raw, name0, n, f, depth) ==
    RemoveAllNamed(st, pend, raw, FsSanitize(raw, name0), n, f, depth)

\* the body of the loop of Fs.RemoveAll for the entry at fullpath
RemoveEntry(st, pend, raw, fullpath, isDir, n, f, depth) ==
    IF isDir
    THEN RemoveAllFrom(st, pend, raw, fullpath, n, f, depth + 1)
    ELSE PartialOf(forceRemove(st, pend, fullpath, f = n + 1), n + 1)

\* the loop of Fs.RemoveAll after its body ended with one: on to the entries fis
RemoveNext(raw, dir, fis, f, depth, one) ==
    IF one.err # Nil THEN one
    ELSE After(one.calls, RemoveEntries(one.st, one.pend, raw, dir, fis, one.n, f, depth))

\* the loop of Fs.RemoveAll with fi the entry it turns to, of the entries fis
RemoveChosen(st, pend, raw, dir, fis, fi, n, f, depth) ==
    RemoveNext(raw, dir, fis \ {fi}, f, depth,
               RemoveEntry(st, pend, raw, Join(dir, fi.name), fi.isDir, n, f, depth))

\* the loop of Fs.RemoveAll over the entries fis of directory dir
RemoveEntries(st, pend, raw, dir, fis, n, f, depth) ==
    IF fis = {} THEN Partial(Nil, << >>, st, pend, n)
    ELSE RemoveChosen(st, pend, raw, dir, fis, CHOOSE e \in fis : TRUE, n, f, depth)

\* the end of Fs.RemoveAll on name, the loop having ended with kids: the
\* marker of the directory is deleted
RemoveAllListed(name, f, kids) ==
    IF kids.err # Nil THEN kids
    ELSE After(kids.calls,
               PartialOf(forceRemove(kids.st, kids.pend, name \o << Sep >>, f = kids.n + 1), kids.n + 1))

\* Fs.RemoveAll on the sanitized name, which is the name of the handle s3dir
RemoveAllNamed(st, pend, raw, name, n, f, depth) ==
    IF TooDeep(st, depth)
    THEN Partial(Diverges, << >>, st, pend, n)
    ELSE IF f = n + 1
    THEN Partial(AwsErr("500"), << Req("Readdir", name, "0") >>, st, pend, n + 1)
    ELSE After(<< Req("Readdir", name, "0") >>,
               RemoveAllListed(name, f,
                   RemoveEntries(st, pend, raw, name, Readdir(st, pend, name), n + 1, f, depth)))

\* the outcome of a handler that returns the error of its parts
ErrOutcome(p) == Outcome(p.err, NilInfo, NilFile, p.calls, p.st, p.pend)

\* Fs.RemoveAll
RemoveAll(st, pend, raw, name0, f) == ErrOutcome(RemoveAllFrom(st, pend, raw, name0, 0, f, 0))

(* ------------------------------------------------------------------ *)
(* Inputs                                                              *)
(* ------------------------------------------------------------------ *)

\* the paths the facade is called with: "", "a", "a/", "./a", "/a", "/."
Paths ==
    { EmptyStr, << "a" >>, << "a", Sep >>, << Dot, Sep, "a" >>, << Sep, "a" >>, << Sep, Dot >> }

\* the os.O_* bits OpenFile looks at (O_RDONLY is no bit)
Flags == SUBSET {"O_WRONLY", "O_RDWR", "O_APPEND", "O_CREATE"}

\* file modes: 0000, 0002, 0004, 0006, 0660, 0664, 0777
Modes == {0, 2, 4, 6, 432, 436, 511}

\* the number of bytes a caller writes before it closes a handle
Sizes == {0, MaxSize}

\* an object of the bucket
Obj(size, mtime) == [size |-> size, mtime |-> mtime]

\* a bucket holding a file "ab"
FileStore == [k \in { << "a", "b" >> } |-> Obj(MaxSize, Now - 1)]

\* a bucket holding the tree a/, a/b, a/s/, a/s/b
TreeKeys == { << "a", Sep >>, << "a", Sep, "b" >>, << "a", Sep, "s", Sep >>,
              << "a", Sep, "s", Sep, "b" >> }

TreeStore == [k \in TreeKeys |-> IF HasSuffixSep(k) THEN Obj(0, Now - 1) ELSE Obj(MaxSize, Now - 1)]

EmptyStore == [k \in {} |-> Obj(0, Now - 1)]

InitStores == { EmptyStore, FileStore, TreeStore }

NoCall == [op |-> "none", name |-> EmptyStr, name2 |-> EmptyStr, flag |-> {}, mode |-> 0,
           err |-> Nil, info |-> NilInfo, file |-> NilFile, calls |-> << >>]

\* the record of a call that ended with outcome r
Called(op, name, name2, flag, mode, r) ==
    [op |-> op, name |-> name, name2 |-> name2, flag |-> flag, mode |-> mode,
     err |-> r.err, info |-> r.info, file |-> r.file, calls |-> r.calls]

(* ------------------------------------------------------------------ *)
(* The filesystem as a state machine                                   *)
(* ------------------------------------------------------------------ *)

\* NewFs: RawMode is a public field the caller may set before the first call
Init ==
    /\ store \in InitStores
    /\ pending = {}
    /\ RawMode \in BOOLEAN
    /\ last = NoCall
    /\ ops = 0
    /\ arg = EmptyStr
    /\ res = << >>

\* the caller may make a call: it holds no result of an earlier one, and has
\* calls left
Ready == last = NoCall /\ ops < MaxOps

\* a facade call ends with outcome r
Finish(op, name, name2, flag, mode, r) ==
    /\ ops' = ops + 1
    /\ store' = r.st
    /\ pending' = r.pend
    /\ last' = Called(op, name, name2, flag, mode, r)
    /\ UNCHANGED << RawMode, arg, res >>

\* the requests a call sends when none fails: each of them may fail
FailPoints(r) == 0..Len(r.calls)

DoCreate ==
    /\ Ready
    /\ \E name \in Paths, slow \in BOOLEAN :
        \E f \in FailPoints(Create(store, pending, RawMode, name, slow, 0)) :
            Finish("Create", name, EmptyStr, {}, 0, Create(store, pending, RawMode, name, slow, f))

DoMkdir ==
    /\ Ready
    /\ \E name \in Paths, slow \in BOOLEAN :
        \E f \in FailPoints(Mkdir(store, pending, RawMode, name, slow, 0)) :
            Finish("Mkdir", name, EmptyStr, {}, 0, Mkdir(store, pending, RawMode, name, slow, f))

DoMkdirAll ==
    /\ Ready
    /\ \E name \in Paths, slow \in BOOLEAN :
        \E f \in FailPoints(MkdirAll(store, pending, RawMode, name, slow, 0)) :
            Finish("MkdirAll", name, EmptyStr, {}, 0, MkdirAll(store, pending, RawMode, name, slow, f))

DoOpenFile ==
    /\ Ready
    /\ \E name \in Paths, flag \in Flags :
        \E f \in FailPoints(OpenFile(store, pending, RawMode, name, flag, 0)) :
            Finish("OpenFile", name, EmptyStr, flag, 0, OpenFile(store, pending, RawMode, name, flag, f))

DoRemove ==
    /\ Ready
    /\ \E name \in Paths :
        \E f \in FailPoints(Remove(store, pending, RawMode, name, 0)) :
            Finish("Remove", name, EmptyStr, {}, 0, Remove(store, pending, RawMode, name, f))

DoRemoveAll ==
    /\ Ready
    /\ \E name \in Paths :
        \E f \in FailPoints(RemoveAll(store, pending, RawMode, name, 0)) :
            /\ RemoveAll(store, pending, RawMode, name, f).err # Diverges
            /\ Finish("RemoveAll", name, EmptyStr, {}, 0, RemoveAll(store, pending, RawMode, name, f))

DoRename ==
    /\ Ready
    /\ \E oldname \in Paths, newname \in Paths :
        \E f \in FailPoints(Rename(store, pending, RawMode, oldname, newname, 0)) :
            Finish("Rename", oldname, newname, {}, 0, Rename(store, pending, RawMode, oldname, newname, f))

DoStat ==
    /\ Ready
    /\ \E name \in Paths :
        \E f \in FailPoints(Stat(store, pending, RawMode, name, 0)) :
            Finish("Stat", name, EmptyStr, {}, 0, Stat(store, pending, RawMode, name, f))

DoChmod ==
    /\ Ready
    /\ \E name \in Paths, mode \in Modes :
        \E f \in FailPoints(Chmod(store, pending, RawMode, name, mode, 0)) :
            Finish("Chmod", name, EmptyStr, {}, mode, Chmod(store, pending, RawMode, name, mode, f))

DoChown ==
    /\ Ready
    /\ \E name \in Paths : Finish("Chown", name, EmptyStr, {}, 0, Chown(store, pending))

DoChtimes ==
    /\ Ready
    /\ \E name \in Paths : Finish("Chtimes", name, EmptyStr, {}, 0, Chtimes(store, pending))

\* the caller closes the handle it was just given, after writing size bytes
DoClose ==
    /\ last.file.kind = "file"
    /\ last.file.stream = "write"
    /\ \E size \in Sizes, slow \in BOOLEAN, bad \in BOOLEAN :
        LET r == CloseWrite(store, pending, last.file, size, slow, bad)
        IN  /\ store' = r.st
            /\ pending' = r.pend
            /\ last' = Called("Close", last.file.name, EmptyStr, {}, 0, r)
            /\ UNCHANGED << RawMode, ops, arg, res >>

\* the caller takes the result of the call and goes on
Return ==
    /\ last # NoCall
    /\ last' = NoCall
    /\ UNCHANGED << store, pending, RawMode, ops, arg, res >>

\* the store publishes a key it was slow to publish
Propagate ==
    /\ \E k \in pending : pending' = pending \ {k}
    /\ UNCHANGED << store, RawMode, last, ops, arg, res >>

Next ==
    \/ DoCreate
    \/ DoMkdir
    \/ DoMkdirAll
    \/ DoOpenFile
    \/ DoRemove
    \/ DoRemoveAll
    \/ DoRename
    \/ DoStat
    \/ DoChmod
    \/ DoChown
    \/ DoChtimes
    \/ DoClose
    \/ Return
    \/ Propagate

Spec == Init /\ [][Next]_vars

(* ------------------------------------------------------------------ *)
(* The path functions on their own                                     *)
(* ------------------------------------------------------------------ *)

\* every string of at most n characters of the alphabet
RECURSIVE StringsUpTo(_)
StringsUpTo(n) ==
    IF n = 0 THEN { EmptyStr }
    ELSE StringsUpTo(n - 1)
             \cup { Append(w, c) : w \in { v \in StringsUpTo(n - 1) : Len(v) = n - 1 }, c \in Alphabet }

\* longer inputs: C:\a\b, /a/../b/, a\b\ and "./a:a"
Examples ==
    { << "C", Colon, Backslash, "a", Backslash, "b" >>,
      << Sep, "a", Sep, Dot, Dot, Sep, "b", Sep >>,
      << "a", Backslash, "b", Backslash >>,
      << Dot, Sep, "a", Colon, "a" >> }

Inputs == StringsUpTo(MaxLen) \cup Examples

InitSanitize ==
    /\ store = EmptyStore
    /\ pending = {}
    /\ RawMode = FALSE
    /\ last = NoCall
    /\ ops = 0
    /\ arg \in Inputs
    /\ res = << >>

\* sanitize is applied to the input, and then to its own result
ApplySanitize ==
    /\ Len(res) < 2
    /\ res' = Append(res, sanitize(IF Len(res) = 0 THEN arg ELSE res[Len(res)]))
    /\ UNCHANGED << store, pending, RawMode, last, ops, arg >>

NextSanitize == ApplySanitize

SpecSanitize == InitSanitize /\ [][NextSanitize]_vars

(* ------------------------------------------------------------------ *)
(* Properties                                                          *)
(* ------------------------------------------------------------------ *)

\* a facade call named op ends in this step
Ends(op) == ops' = ops + 1 /\ last'.op = op

\* the key the facade derives from a path it is given
KeyOf(name) == FsSanitize(RawMode, name)

\* C1: Rename(old, new), when the two normalize to different paths and a
\* file is visible at the old key, returns without error only after it has
\* moved the object: the store then holds it under the new key and holds
\* nothing under the old key.
RenameMoves ==
    [][ ( /\ Ends("Rename")
          /\ last'.err = Nil
          /\ KeyOf(last'.name) # KeyOf(last'.name2)
          /\ KeyOf(last'.name2) # EmptyStr
          /\ KeyOf(last'.name) \in Visible(store, pending)
          /\ ~HasSuffixSep(KeyOf(last'.name)) )
        => ( /\ KeyOf(last'.name2) \in DOMAIN store'
             /\ store'[KeyOf(last'.name2)].size = store[KeyOf(last'.name)].size
             /\ KeyOf(last'.name) \notin DOMAIN store' ) ]_vars

\* C2: Rename(old, new) with old and new the same path after normalization
\* sends no request to the store, leaves the bucket as it was and returns no
\* error.
RenameSameIsNoop ==
    [][ ( Ends("Rename") /\ KeyOf(last'.name) = KeyOf(last'.name2) )
        => ( /\ last'.calls = << >>
             /\ last'.err = Nil
             /\ store' = store
             /\ pending' = pending ) ]_vars

\* C3: once Create(p) has returned without error, a Stat(p) issued right
\* away succeeds, whether or not the store is slow to publish new keys.
CreateThenStat ==
    ( last.op = "Create" /\ last.err = Nil )
        => Stat(store, pending, RawMode, last.name, 0).err = Nil

\* C4: Stat(p) on a path whose key holds a file returns a non-directory
\* record with the stored size and modification time; Stat(p) on a path
\* whose key holds nothing while some key starts with it returns a
\* directory record of size 0 dated at the epoch.
StatReports ==
    \A p \in Paths \ { EmptyStr } :
        /\ ( KeyOf(p) \in Visible(store, pending) /\ ~HasSuffixSep(KeyOf(p)) )
            => ( /\ Stat(store, pending, RawMode, p, 0).err = Nil
                 /\ Stat(store, pending, RawMode, p, 0).info
                        = MkInfo("value", Base(KeyOf(p)), FALSE,
                                 store[KeyOf(p)].size, store[KeyOf(p)].mtime) )
        /\ ( /\ KeyOf(p) \notin Visible(store, pending)
             /\ \E k \in Visible(store, pending) : HasPrefix(k, KeyOf(p)) )
            => ( /\ Stat(store, pending, RawMode, p, 0).err = Nil
                 /\ Stat(store, pending, RawMode, p, 0).info.isDir
                 /\ Stat(store, pending, RawMode, p, 0).info.size = 0
                 /\ Stat(store, pending, RawMode, p, 0).info.modTime = Epoch )

\* the point lookup and the prefix listing of Stat both miss the key
Misses(st, pend, key) ==
    /\ key # EmptyStr
    /\ key \notin Visible(st, pend)
    /\ \A k \in Visible(st, pend) : ~HasPrefix(k, ListPrefix(key))

DirOf(name) ==
    IF HasSuffixSep(KeyOf(name)) THEN SubSeq(KeyOf(name), 1, Len(KeyOf(name)) - 1) ELSE KeyOf(name)

\* the marker key of the directory a path names
MarkerOf(name) == DirOf(name) \o << Sep >>

\* C6: after RemoveAll on a directory that holds keys returns without
\* error, every key under the directory, its own marker included, is gone,
\* and Stat of the directory written with its separator returns NotFound.
RemoveAllClears ==
    [][ ( /\ Ends("RemoveAll")
          /\ last'.err = Nil
          /\ last'.name # EmptyStr
          /\ \E k \in Visible(store, pending) : HasPrefix(k, MarkerOf(last'.name)) )
        => ( /\ \A k \in Visible(store, pending) :
                    HasPrefix(k, MarkerOf(last'.name)) => k \notin DOMAIN store'
             /\ IsNotExist(Stat(store', pending', RawMode, MarkerOf(last'.name), 0).err) ) ]_vars

\* C7: OpenFile with O_RDWR or with O_APPEND among its flags fails with
\* ErrNotSupported whatever the other flags and the path are; it returns no
\* handle, sends no request and opens no stream.
OpenFileNotSupported ==
    ( last.op = "OpenFile" /\ ( "O_RDWR" \in last.flag \/ "O_APPEND" \in last.flag ) )
        => ( /\ last.err = ErrNotSupported
             /\ last.file = NilFile
             /\ last.calls = << >> )

\* C7 happens: an OpenFile asking to create, write and append
OpenFileNotSupportedReached ==
    /\ last.op = "OpenFile"
    /\ last.flag = {"O_APPEND", "O_CREATE", "O_WRONLY"}
    /\ last.err = ErrNotSupported

\* the access level the permission bits of "other" stand for
AclOf(read, write) ==
    IF read /\ write THEN "public-read-write" ELSE IF read THEN "public-read" ELSE "private"

\* C8: Chmod(p, mode) sends one PutObjectAcl for the key of p; its level is
\* public-read-write when other-read and other-write are both set,
\* public-read when only other-read is, private otherwise, and the owner and
\* group bits have no part in it.
ChmodSetsAcl ==
    /\ last.op = "Chmod"
           => ( /\ Len(last.calls) = 1
                /\ last.calls[1].api = "PutObjectAcl"
                /\ last.calls[1].key = KeyOf(last.name)
                /\ last.calls[1].extra
                       = AclOf((last.mode % 8) \in {4, 5, 6, 7}, (last.mode % 8) \in {2, 3, 6, 7}) )
    /\ \A m \in Modes : ChmodAcl(m) = ChmodAcl(m % 8)

\* C8 happens: a Chmod to 0664 of a stored object was accepted as public-read
ChmodSetsAclReached ==
    /\ last.op = "Chmod"
    /\ last.mode = 436
    /\ last.err = Nil
    /\ last.calls[1].extra = "public-read"

\* C9: sanitize applied to its own result gives that result again.
SanitizeIdempotent == Len(res) = 2 => res[2] = res[1]

\* C10: for an input that is not blank, the result of sanitize ends with
\* exactly one separator when the input ended with a separator or a
\* backslash, and with no separator otherwise.
SanitizeKeepsTrailingSep ==
    ( Len(res) >= 1 /\ ~IsBlank(arg) )
        => IF HasSuffixSep(ReplaceBackslash(arg))
           THEN /\ HasSuffixSep(res[1])
                /\ ~HasSuffixSep(SubSeq(res[1], 1, Len(res[1]) - 1))
           ELSE ~HasSuffixSep(res[1])

\* the requests of the last call that went to api
CallsTo(api) == { i \in 1..Len(last.calls) : last.calls[i].api = api }

\* the requests to api of the call that ends in this step
CallsToNext(api) == { i \in 1..Len(last'.calls) : last'.calls[i].api = api }

\* C11: Remove(p) deletes only after a Stat that succeeded.  When the point
\* lookup and the prefix listing both miss p, it returns NotFound, sends no
\* delete and leaves the bucket as it was; when it returns without error it
\* has sent one delete, for the key of p, and only that key is gone.
RemoveChecksFirst ==
    [][ Ends("Remove")
        => ( /\ ( Misses(store, pending, KeyOf(last'.name)) /\ last'.err.cause # "500" )
                    => ( /\ IsNotExist(last'.err)
                         /\ CallsToNext("DeleteObject") = {}
                         /\ store' = store /\ pending' = pending )
             /\ CallsToNext("DeleteObject") # {}
                    => Stat(store, pending, RawMode, last'.name, 0).err = Nil
             /\ last'.err = Nil
                    => ( /\ Cardinality(CallsToNext("DeleteObject")) = 1
                         /\ last'.calls[Len(last'.calls)]
                                = Req("DeleteObject", KeyOf(last'.name), "")
                         /\ store' = Without(store, KeyOf(last'.name)) )
             /\ last'.err # Nil => store' = store ) ]_vars

\* C11 happens: a Remove of a path that a bucket holding other keys misses
RemoveNotFoundReached ==
    /\ last.op = "Remove"
    /\ store # EmptyStore
    /\ Misses(store, pending, KeyOf(last.name))
    /\ IsNotExist(last.err)
    /\ CallsTo("DeleteObject") = {}

\* C12: a Create that returns an error of the store, from the empty write or
\* from the wait for the object, returns no file handle with it.
CreateFailsWithoutHandle ==
    ( last.op = "Create" /\ last.err.type = "aws" ) => last.file = NilFile

\* the operations of the facade
FacadeOps ==
    { "Create", "Mkdir", "MkdirAll", "OpenFile", "Remove", "RemoveAll", "Rename", "Stat",
      "Chmod", "Chown", "Chtimes" }

\* C13: an error a facade operation returns for a service failure of the
\* store names the operation and the path: it is a PathError, never the bare
\* error of the client.
StoreErrorsAreWrapped ==
    ( last.op \in FacadeOps /\ last.err.cause = "500" )
        => ( /\ last.err.type = "PathError"
             /\ last.err.op # ""
             /\ last.err.path = KeyOf(last.name) )

\* C14: Chown and Chtimes fail with ErrNotSupported whatever the path and
\* the bucket are, send no request, and leave the bucket as it was.
ChownChtimesNotSupported ==
    [][ ( Ends("Chown") \/ Ends("Chtimes") )
        => ( /\ last'.err = ErrNotSupported
             /\ last'.calls = << >>
             /\ last'.file = NilFile
             /\ store' = store
             /\ pending' = pending ) ]_vars

\* C14 happens: a Chtimes as the second call on a bucket that holds keys
ChownChtimesReached ==
    /\ last.op = "Chtimes"
    /\ ops = 2
    /\ store # EmptyStore
    /\ last.err = ErrNotSupported

\* C15: with raw mode off, the empty write, the write handle and the wait
\* of Create(p) all use the key sanitize(p), so that two spellings of one
\* path address one key.
CreateUsesNormalizedKey ==
    ( ~RawMode /\ last.op = "Create" )
        => \A i \in 1..Len(last.calls) : last.calls[i].key = sanitize(last.name)

\* C16: with raw mode off, a Mkdir(p) or MkdirAll(p) of a non-empty p that
\* returns without error has addressed one key only, the normalized path of p ended by
\* exactly one separator, and has uploaded the marker to it.
MkdirWritesMarker ==
    ( ~RawMode /\ last.op \in {"Mkdir", "MkdirAll"} /\ last.name # EmptyStr /\ last.err = Nil )
        => ( /\ \A i \in 1..Len(last.calls) : last.calls[i].key = MarkerOf(last.name)
             /\ CallsTo("Upload") # {}
             /\ MarkerOf(last.name) \in DOMAIN store
             /\ store[MarkerOf(last.name)].size = 0 )

\* what Stat answers, before the call that ends in this step, for the handle
\* OpenFile builds on the path it is given
StatOfHandle == Stat(store, pending, RawMode, KeyOf(last'.name), 0)

\* C17: OpenFile without O_RDWR and O_APPEND.  With O_CREATE or O_WRONLY
\* it opens the write stream without any Stat and returns the handle
\* whether or not the stream opened.  Otherwise it stats the path first: an
\* error of Stat is returned with no handle and no stream; for a directory
\* the handle is returned with no stream; for a file a read stream is opened
\* at offset 0 and the handle is returned with the result of the opening.
OpenFileReadsOrWrites ==
    [][ ( Ends("OpenFile") /\ last'.flag \cap {"O_RDWR", "O_APPEND"} = {} )
        => IF last'.flag \cap {"O_CREATE", "O_WRONLY"} # {}
           THEN /\ last'.calls = << Req("openWriteStream", KeyOf(last'.name), "") >>
                /\ last'.file.kind = "file"
                /\ last'.file.name = KeyOf(last'.name)
                /\ last'.file.stream = IF last'.err = Nil THEN "write" ELSE "none"
                /\ store' = store
           ELSE /\ last'.calls[1].api = "HeadObject"
                /\ CallsToNext("openWriteStream") = {}
                /\ store' = store
                /\ last'.err.cause # "500"
                       => IF StatOfHandle.err # Nil
                          THEN /\ last'.err = StatOfHandle.err
                               /\ last'.file = NilFile
                               /\ CallsToNext("openReadStream") = {}
                          ELSE IF StatOfHandle.info.isDir
                          THEN /\ last'.err = Nil
                               /\ last'.file = MkFile("file", KeyOf(last'.name), "none")
                               /\ CallsToNext("openReadStream") = {}
                          ELSE /\ last'.calls[Len(last'.calls)]
                                      = Req("openReadStream", KeyOf(last'.name), "0")
                               /\ Cardinality(CallsToNext("openReadStream")) = 1
                               /\ last'.file.kind = "file"
                               /\ last'.file.name = KeyOf(last'.name)
                               /\ last'.file.stream = IF last'.err = Nil THEN "read" ELSE "none"
                               /\ last'.err \in {Nil, StreamErr} ]_vars

\* C17 happens: a file of the bucket was opened for reading
OpenFileReadReached ==
    /\ last.op = "OpenFile"
    /\ last.flag = {}
    /\ last.err = Nil
    /\ last.file.stream = "read"
    /\ last.calls[Len(last.calls)].api = "openReadStream"

\* C18: once Remove(p) has returned without error, a Stat(p) made before
\* any other call returns NotFound, whether p was a file or a directory.
RemoveThenStat ==
    ( last.op = "Remove" /\ last.err = Nil )
        => IsNotExist(Stat(store, pending, RawMode, last.name, 0).err)

\* Stat of name answers with a directory record of size 0
StatsAsDir(name) ==
    /\ Stat(store, pending, RawMode, name, 0).err = Nil
    /\ Stat(store, pending, RawMode, name, 0).info.isDir
    /\ Stat(store, pending, RawMode, name, 0).info.size = 0

\* C19: once Mkdir(p) has returned without error for a non-empty p, and the
\* store has published what it wrote, Stat(p) and Stat of p with a trailing
\* separator both answer with a directory record of size 0.
MkdirThenStat ==
    ( last.op = "Mkdir" /\ last.err = Nil /\ last.name # EmptyStr /\ pending = {} )
        => ( StatsAsDir(last.name) /\ StatsAsDir(last.name \o << Sep >>) )

\* C20: a Stat(p) of a non-empty path other than the root answers with a
\* directory record only if the bucket holds a key beneath p: one that
\* starts with the normalized p followed by a separator.
StatDirHasKeyBeneath ==
    ( /\ last.op = "Stat"
      /\ last.err = Nil
      /\ last.info.isDir
      /\ last.name # EmptyStr
      /\ Clean(KeyOf(last.name)) # << Sep >> )
        => \E k \in Visible(store, pending) : HasPrefix(k, MarkerOf(last.name))

====
